---- MODULE Spec2Model ----
(***************************************************************************)
(* Model of the live-update channel of the Lancerscape web client:         *)
(* the useWebSocket hook (src/hooks/useWebSocket.ts), the browser          *)
(* WebSocket objects and timers it drives, and the components that call    *)
(* it (App directly, FileManager and FileUploadZone through                *)
(* useFileUpload).                                                         *)
(***************************************************************************)
EXTENDS Integers, Sequences, FiniteSets, TLC

(***************************************************************************)
(* Bounds of the model.                                                    *)
(***************************************************************************)
MaxSockets == 6
MaxUserChanges == 1
MaxMessageSockets == 2
MaxMutationSockets == 1
MaxRequests == 1
MaxAppSockets == 4
MaxPages == 5
MaxAttempts == 2
MaxFiles == 1

(***************************************************************************)
(* Program constants.                                                      *)
(***************************************************************************)
maxReconnectAttempts == 5
BaseDelay == 1000
MaxDelay == 30000

DefaultWsBase == "wss://api.lancerscape.in"
ConfiguredWsBase == "wss://push.example.test"
MalformedWsBase == "not a url"

\* Values of import.meta.env.VITE_WS_URL: "" stands for an unset variable.
EnvValues == {"", ConfiguredWsBase, MalformedWsBase}

AppUserId == "current-user-id"
OtherUserId == "other-user-id"
UserIds == {"", AppUserId, OtherUserId}

\* Components that call useWebSocket: App directly, the other two through
\* useFileUpload.
Hooks == {"App", "FileManager", "FileUploadZone"}

SockIds == 1..MaxSockets

(***************************************************************************)
(* Inbound frames.  A frame is the text of one WebSocket message: text     *)
(* that is not JSON, the JSON literal null, a JSON scalar, or a JSON       *)
(* object with an optional "type" and an optional "data" member; "data"    *)
(* is described by the value of data.projectId.                            *)
(***************************************************************************)
MessageTypes ==
  {"project_update", "milestone_update", "proposal_update", "file_upload", "notification"}
ProjectIds == {"p1", "p2"}
Absent == "-"
NoData == "no-data"
FrameTypes == MessageTypes \cup {"chat_message", Absent}
FrameData == ProjectIds \cup {NoData}

Frames ==
  {[text |-> "garbage", type |-> Absent, data |-> Absent],
   [text |-> "null", type |-> Absent, data |-> Absent],
   [text |-> "scalar", type |-> Absent, data |-> Absent]}
  \cup [text : {"object"}, type : FrameTypes, data : FrameData]

\* JavaScript null, also the initial lastMessage.
JSnull == [k |-> "null", type |-> Absent, data |-> Absent]
NoFrame == [text |-> "none", type |-> Absent, data |-> Absent]

\* JSON.parse(event.data): throws on text that is not JSON, otherwise the
\* decoded value.
JSONparse(frame) ==
  IF frame.text = "garbage"
  THEN [ok |-> FALSE, val |-> JSnull]
  ELSE [ok |-> TRUE, val |-> [k |-> frame.text, type |-> frame.type, data |-> frame.data]]

\* handleMessage whose 'project_update' case lacks its second call.
handleMessage_oneProjectKey(message) ==
  IF message.k = "null" THEN [inval |-> <<>>, threw |-> TRUE]
  ELSE IF message.k # "object" THEN [inval |-> <<>>, threw |-> FALSE]
  ELSE CASE message.type = "project_update" ->
              IF message.data = NoData
              THEN [inval |-> << <<"projects">> >>, threw |-> TRUE]
              ELSE [inval |-> << <<"projects">> >>, threw |-> FALSE]
         [] message.type = "milestone_update" ->
              IF message.data = NoData
              THEN [inval |-> <<>>, threw |-> TRUE]
              ELSE [inval |-> << <<"milestones", message.data>> >>, threw |-> FALSE]
         [] message.type = "proposal_update" ->
              IF message.data = NoData
              THEN [inval |-> <<>>, threw |-> TRUE]
              ELSE [inval |-> << <<"proposals", message.data>> >>, threw |-> FALSE]
         [] message.type = "file_upload" ->
              IF message.data = NoData
              THEN [inval |-> <<>>, threw |-> TRUE]
              ELSE [inval |-> << <<"project-files", message.data>> >>, threw |-> FALSE]
         [] message.type = "notification" ->
              [inval |-> << <<"notifications">> >>, threw |-> FALSE]
         [] OTHER -> [inval |-> <<>>, threw |-> FALSE]

\* handleMessage whose 'notification' case is the default case.
handleMessage_defaultInvalidates(message) ==
  IF message.k = "null" THEN [inval |-> <<>>, threw |-> TRUE]
  ELSE IF message.k # "object" THEN [inval |-> <<>>, threw |-> FALSE]
  ELSE CASE message.type = "project_update" ->
              IF message.data = NoData
              THEN [inval |-> << <<"projects">> >>, threw |-> TRUE]
              ELSE [inval |-> << <<"projects">>, <<"project", message.data>> >>,
                    threw |-> FALSE]
         [] message.type = "milestone_update" ->
              IF message.data = NoData
              THEN [inval |-> <<>>, threw |-> TRUE]
              ELSE [inval |-> << <<"milestones", message.data>> >>, threw |-> FALSE]
         [] message.type = "proposal_update" ->
              IF message.data = NoData
              THEN [inval |-> <<>>, threw |-> TRUE]
              ELSE [inval |-> << <<"proposals", message.data>> >>, threw |-> FALSE]
         [] message.type = "file_upload" ->
              IF message.data = NoData
              THEN [inval |-> <<>>, threw |-> TRUE]
              ELSE [inval |-> << <<"project-files", message.data>> >>, threw |-> FALSE]
         [] OTHER -> [inval |-> << <<"notifications">> >>, threw |-> FALSE]

\* The calls to queryClient.invalidateQueries made by handleMessage, in
\* order, and whether it threw (reading .type of null, or .projectId of a
\* missing data member).
handleMessage(message) ==
  IF message.k = "null" THEN [inval |-> <<>>, threw |-> TRUE]
  ELSE IF message.k # "object" THEN [inval |-> <<>>, threw |-> FALSE]
  ELSE CASE message.type = "project_update" ->
              IF message.data = NoData
              THEN [inval |-> << <<"projects">> >>, threw |-> TRUE]
              ELSE [inval |-> << <<"projects">>, <<"project", message.data>> >>,
                    threw |-> FALSE]
         [] message.type = "milestone_update" ->
              IF message.data = NoData
              THEN [inval |-> <<>>, threw |-> TRUE]
              ELSE [inval |-> << <<"milestones", message.data>> >>, threw |-> FALSE]
         [] message.type = "proposal_update" ->
              IF message.data = NoData
              THEN [inval |-> <<>>, threw |-> TRUE]
              ELSE [inval |-> << <<"proposals", message.data>> >>, threw |-> FALSE]
         [] message.type = "file_upload" ->
              IF message.data = NoData
              THEN [inval |-> <<>>, threw |-> TRUE]
              ELSE [inval |-> << <<"project-files", message.data>> >>, threw |-> FALSE]
         [] message.type = "notification" ->
              [inval |-> << <<"notifications">> >>, threw |-> FALSE]
         [] OTHER -> [inval |-> <<>>, threw |-> FALSE]

\* onmessage without the try/catch: a frame that is not JSON throws out of
\* the handler.
onmessage_noCatch(frame) ==
  LET parsed == JSONparse(frame)
      routed == handleMessage(parsed.val)
  IN IF ~parsed.ok
     THEN [setLast |-> FALSE, message |-> JSnull, inval |-> <<>>, escaped |-> TRUE]
     ELSE [setLast |-> TRUE, message |-> parsed.val, inval |-> routed.inval,
           escaped |-> routed.threw]

\* The body of ws.onmessage: parse, setLastMessage, handleMessage, all
\* inside one try/catch.
onmessage(frame) ==
  LET parsed == JSONparse(frame)
      routed == handleMessage(parsed.val)
  IN IF ~parsed.ok
     THEN [setLast |-> FALSE, message |-> JSnull, inval |-> <<>>, escaped |-> FALSE]
     ELSE [setLast |-> TRUE, message |-> parsed.val, inval |-> routed.inval,
           escaped |-> FALSE]

Min(a, b) == IF a < b THEN a ELSE b

\* The delay computed from the counter before the increment.
reconnectDelay_beforeIncrement(attempts) ==
  Min(BaseDelay * (2 ^ (attempts - 1)), MaxDelay)

\* Math.min(1000 * Math.pow(2, attempts), 30000)
reconnectDelay(attempts) == Min(BaseDelay * (2 ^ attempts), MaxDelay)

\* `${import.meta.env.VITE_WS_URL || 'wss://api.lancerscape.in'}/ws?userId=${userId}`
wsUrl(env, user) ==
  [base |-> IF env = "" THEN DefaultWsBase ELSE env, userId |-> user]

\* new WebSocket(url) throws a SyntaxError on a url it cannot parse.
WebSocketThrows(url) == url.base = MalformedWsBase

VARIABLES
  viteWsUrl,            \* import.meta.env.VITE_WS_URL
  sockBudget,           \* number of WebSocket objects a behaviour may create
  phase,                \* per hook: "idle" (not mounted yet), "mounted", "unmounted"
  userId,               \* per hook: the userId argument of the latest render
  isConnected,          \* per hook: useState(false)
  lastMessage,          \* per hook: useState(null)
  wsRef,                \* per hook: wsRef.current, 0 is null
  reconnectTimeoutRef,  \* per hook: reconnectTimeoutRef.current, 0 is undefined
  reconnectAttempts,    \* per hook: reconnectAttempts.current
  session,              \* per hook: number of runs of the effect
  userChanges,          \* number of userId changes so far
  sock,                 \* the WebSocket objects created so far
  nextSock,             \* number of WebSocket objects created so far
  timers,               \* pending setTimeout callbacks, named by the socket whose onclose set them
  delays,               \* per hook: delays scheduled since the last successful open
  everOpened,           \* per hook: some socket of the hook has opened
  autoAttempts,         \* per hook: number of connect() calls made by timer callbacks
  lastAuto,             \* per hook: the socket created by the latest timer callback
  cancelDue,            \* timers that were pending when their hook's cleanup ran
  ev,                   \* what the last step did
  stale,                \* the cached queries that are marked stale (invalidated)
  mev,                  \* what the last mutation or refetch did
  server,               \* milestone board: the status of each milestone on the server
  board,                \* the milestones prop of the board: status by milestone
  drag,                 \* the item of the drag in progress, or NoDrag
  inflight,             \* update requests sent and not settled: how many of each
  completing,           \* complete requests sent and not settled: how many per milestone
  refetching,           \* onMilestoneUpdate was called and its refetch has not arrived
  bev,                  \* what the last step of the board did
  userType,             \* App: useState<UserType>('freelancer')
  activeView,           \* App: useState<ViewType>('browse')
  selectedProjectId,    \* App: useState<string | null>(null)
  mobileMenuOpen,       \* Navigation: useState(false)
  nev,                  \* what the last step of the navigation did
  pages,                \* project browser: data.pages, each page by its pageParam and nextPage
  fetching,             \* pageParam of the fetch in flight whose result will be used, 0 is none
  rendered,             \* hasNextPage and isFetchingNextPage of the latest render
  pev,                  \* what the last step of the project browser did
  uploadingFiles,       \* FileUploadZone: useState<UploadingFile[]>([])
  attempt,              \* per call of handleFiles: "none", "uploading", "succeeded", "failed"
  intervals,            \* calls of handleFiles whose setInterval has not been cleared
  clearTimers,          \* calls of handleFiles whose 2 s setTimeout is pending
  zev                   \* what the last step of the upload zone did

hookVars == <<phase, userId, isConnected, lastMessage, wsRef, reconnectTimeoutRef,
              reconnectAttempts, session, userChanges>>
netVars == <<viteWsUrl, sockBudget, sock, nextSock, timers>>
histVars == <<delays, everOpened, autoAttempts, lastAuto, cancelDue, ev>>
cacheVars == <<stale, mev>>
boardVars == <<server, board, drag, inflight, completing, refetching, bev>>
navVars == <<userType, activeView, selectedProjectId, mobileMenuOpen, nev>>
pageVars == <<pages, fetching, rendered, pev>>
zoneVars == <<uploadingFiles, attempt, intervals, clearTimers, zev>>
viewVars == <<navVars, pageVars, zoneVars>>
uiVars == <<cacheVars, boardVars, viewVars>>
vars == <<hookVars, netVars, histVars, uiVars>>

NoSock == [st |-> "NONE", owner |-> "App", url |-> wsUrl("", ""), sess |-> 0,
           voluntary |-> FALSE]

\* A closed socket that no pending timer refers to: nothing reads its
\* closure any more.
ClosedSock == [NoSock EXCEPT !.st = "CLOSED"]

NoEv == [op |-> "init", h |-> "App", s |-> 0, frame |-> NoFrame, inval |-> {},
         effects |-> {}, torn |-> FALSE, voluntary |-> FALSE, escaped |-> FALSE,
         delay |-> 0, wire |-> {}]

Range(f) == {f[i] : i \in DOMAIN f}

Live(s) == sock[s].st \in {"CONNECTING", "OPEN"}
LiveOf(h) == {s \in SockIds : sock[s].owner = h /\ Live(s)}
TimersOf(h) == {t \in timers : sock[t].owner = h}

\* The closure that created socket s belongs to an effect run whose cleanup
\* has already run.
TornDown(h, se) == phase[h] = "unmounted" \/ se < session[h]

\* The milestone board: cards, columns, drag items and update requests.
Milestones == {"m1", "m2"}
Statuses == {"pending", "in_progress", "completed"}
NoDrag == [id |-> "-", status |-> "-"]
Requests == [id : Milestones, status : Statuses]
NoBev == [op |-> "init", item |-> NoDrag, column |-> "-", issued |-> {}, ok |-> FALSE,
          refetch |-> FALSE, escaped |-> FALSE]

\* App and Navigation: user types, views and the projects a list can show.
UserTypes == {"freelancer", "client"}
ViewTypes == {"browse", "my-projects", "create", "project-details", "milestones"}
NoProject == "null"
ListedProjects == {"p1", "p2"}
NoNev == [op |-> "init", arg |-> "-", from |-> "-", had |-> "-"]

\* The project browser: nothing requested by the user yet.
NoPage == 0
NoPev == [op |-> "init", called |-> FALSE, requested |-> NoPage, inFlight |-> NoPage,
          last |-> NoPage, more |-> FALSE]

\* The upload zone: calls of handleFiles and the last step.
Attempts == 1..MaxAttempts
NoZev == [op |-> "init", attempt |-> 0, ended |-> FALSE, changed |-> FALSE]

\* No mutation has settled yet.
NoMev == [op |-> "init", hook |-> "-", project |-> "-", ok |-> FALSE, marked |-> {}]

InitHooks ==
  /\ viteWsUrl \in EnvValues
  /\ phase = [h \in Hooks |-> "idle"]
  /\ userId = [h \in Hooks |-> ""]
  /\ isConnected = [h \in Hooks |-> FALSE]
  /\ lastMessage = [h \in Hooks |-> JSnull]
  /\ wsRef = [h \in Hooks |-> 0]
  /\ reconnectTimeoutRef = [h \in Hooks |-> 0]
  /\ reconnectAttempts = [h \in Hooks |-> 0]
  /\ session = [h \in Hooks |-> 0]
  /\ userChanges = 0
  /\ sock = [s \in SockIds |-> NoSock]
  /\ nextSock = 0
  /\ timers = {}
  /\ delays = [h \in Hooks |-> <<>>]
  /\ everOpened = [h \in Hooks |-> FALSE]
  /\ autoAttempts = [h \in Hooks |-> 0]
  /\ lastAuto = [h \in Hooks |-> 0]
  /\ cancelDue = {}
  /\ ev = NoEv
  /\ stale = {}
  /\ mev = NoMev
  /\ server = [m \in Milestones |-> "pending"]
  /\ board = [m \in Milestones |-> "pending"]
  /\ drag = NoDrag
  /\ inflight = [r \in Requests |-> 0]
  /\ completing = [m \in Milestones |-> 0]
  /\ refetching = FALSE
  /\ bev = NoBev
  /\ userType = "freelancer"
  /\ activeView = "browse"
  /\ selectedProjectId = NoProject
  /\ mobileMenuOpen = FALSE
  /\ nev = NoNev
  /\ pages = <<>>
  /\ fetching = NoPage
  /\ rendered = [hasNextPage |-> FALSE, isFetchingNextPage |-> FALSE, projects |-> 0]
  /\ pev = NoPev
  /\ uploadingFiles = <<>>
  /\ attempt = [a \in Attempts |-> "none"]
  /\ intervals = {}
  /\ clearTimers = {}
  /\ zev = NoZev

\* A connect() that also resets the retry counter.
connect_resetsAttempts(h, u, se, sockIn) ==
  LET url == wsUrl(viteWsUrl, u)
      new == nextSock + 1
  IN IF WebSocketThrows(url)
     THEN [ws |-> wsRef[h], sock |-> sockIn, created |-> 0, threw |-> TRUE,
           escaped |-> FALSE, attempts |-> 0]
     ELSE [ws |-> new,
           sock |-> [sockIn EXCEPT ![new] =
                       [st |-> "CONNECTING", owner |-> h, url |-> url, sess |-> se,
                        voluntary |-> FALSE]],
           created |-> new, threw |-> FALSE, escaped |-> FALSE,
           attempts |-> 0]

\* connect() without its try/catch: the exception of new WebSocket leaves it.
connect_noCatch(h, u, se, sockIn) ==
  LET url == wsUrl(viteWsUrl, u)
      new == nextSock + 1
  IN IF WebSocketThrows(url)
     THEN [ws |-> wsRef[h], sock |-> sockIn, created |-> 0, threw |-> TRUE,
           escaped |-> TRUE, attempts |-> reconnectAttempts[h]]
     ELSE [ws |-> new,
           sock |-> [sockIn EXCEPT ![new] =
                       [st |-> "CONNECTING", owner |-> h, url |-> url, sess |-> se,
                        voluntary |-> FALSE]],
           created |-> new, threw |-> FALSE, escaped |-> FALSE,
           attempts |-> reconnectAttempts[h]]

(***************************************************************************)
(* connect(), called by the effect of hook h and by timer callbacks, from  *)
(* the closure of the render with userId u and effect run se.  sockIn is   *)
(* the socket table at the call.  The results are the new wsRef.current    *)
(* and socket table.                                                       *)
(***************************************************************************)
connect(h, u, se, sockIn) ==
  LET url == wsUrl(viteWsUrl, u)
      new == nextSock + 1
  IN IF WebSocketThrows(url)
     THEN [ws |-> wsRef[h], sock |-> sockIn, created |-> 0, threw |-> TRUE,
           escaped |-> FALSE, attempts |-> reconnectAttempts[h]]
     ELSE [ws |-> new,
           sock |-> [sockIn EXCEPT ![new] =
                       [st |-> "CONNECTING", owner |-> h, url |-> url, sess |-> se,
                        voluntary |-> FALSE]],
           created |-> new, threw |-> FALSE, escaped |-> FALSE,
           attempts |-> reconnectAttempts[h]]

CanConnect == nextSock < sockBudget

\* WebSocket.close(): CONNECTING or OPEN becomes CLOSING, the close event
\* is delivered later; otherwise nothing happens.
closeSocket(sockIn, s) ==
  IF s # 0 /\ sockIn[s].st \in {"CONNECTING", "OPEN"}
  THEN [sockIn EXCEPT ![s].st = "CLOSING", ![s].voluntary = TRUE]
  ELSE sockIn

\* The cleanup returned by the effect: clearTimeout(reconnectTimeoutRef.current)
\* and wsRef.current.close().
cleanupTimers(h) ==
  IF reconnectTimeoutRef[h] # 0 THEN timers \ {reconnectTimeoutRef[h]} ELSE timers
cleanupSock(h) ==
  LET cleared == IF reconnectTimeoutRef[h] \in timers
                 THEN [sock EXCEPT ![reconnectTimeoutRef[h]] = ClosedSock]
                 ELSE sock
  IN IF wsRef[h] # 0 THEN closeSocket(cleared, wsRef[h]) ELSE cleared

\* The effect body: if (userId) connect().
RunEffect(h, u, sockIn) ==
  IF u # ""
  THEN connect(h, u, session[h] + 1, sockIn)
  ELSE [ws |-> wsRef[h], sock |-> sockIn, created |-> 0, threw |-> FALSE,
        escaped |-> FALSE, attempts |-> reconnectAttempts[h]]

EffectGuard(u) == u # "" /\ ~WebSocketThrows(wsUrl(viteWsUrl, u)) => CanConnect

\* First render of a component that calls the hook with userId u, and the
\* first run of its effect.
Mount(h, u) ==
  /\ phase[h] = "idle"
  /\ EffectGuard(u)
  /\ LET r == RunEffect(h, u, sock)
     IN /\ phase' = [phase EXCEPT ![h] = "mounted"]
        /\ userId' = [userId EXCEPT ![h] = u]
        /\ session' = [session EXCEPT ![h] = @ + 1]
        /\ wsRef' = [wsRef EXCEPT ![h] = r.ws]
        /\ sock' = r.sock
        /\ reconnectAttempts' = [reconnectAttempts EXCEPT ![h] = r.attempts]
        /\ nextSock' = IF r.created # 0 THEN r.created ELSE nextSock
        /\ ev' = [NoEv EXCEPT !.op = "mount", !.h = h, !.s = r.created,
                              !.escaped = r.escaped,
                              !.effects = (IF r.created # 0 THEN {"newSocket"} ELSE {})
                                          \cup (IF r.threw THEN {"connectThrew"} ELSE {})]
  /\ UNCHANGED <<uiVars, viteWsUrl, sockBudget, isConnected, lastMessage, reconnectTimeoutRef,
                 userChanges, timers, delays, everOpened,
                 autoAttempts, lastAuto, cancelDue>>

\* A render with a different userId: the cleanup of the previous effect run,
\* then the effect again.
ChangeUserId(h, u) ==
  /\ phase[h] = "mounted"
  /\ u # userId[h]
  /\ userChanges < MaxUserChanges
  /\ EffectGuard(u)
  /\ LET r == RunEffect(h, u, cleanupSock(h))
     IN /\ userId' = [userId EXCEPT ![h] = u]
        /\ session' = [session EXCEPT ![h] = @ + 1]
        /\ userChanges' = userChanges + 1
        /\ timers' = cleanupTimers(h)
        /\ cancelDue' = (cancelDue \cup TimersOf(h)) \cap timers'
        /\ wsRef' = [wsRef EXCEPT ![h] = r.ws]
        /\ sock' = r.sock
        /\ reconnectAttempts' = [reconnectAttempts EXCEPT ![h] = r.attempts]
        /\ nextSock' = IF r.created # 0 THEN r.created ELSE nextSock
        /\ ev' = [NoEv EXCEPT !.op = "userId", !.h = h, !.s = r.created,
                              !.escaped = r.escaped,
                              !.effects = (IF r.created # 0 THEN {"newSocket"} ELSE {})
                                          \cup (IF r.threw THEN {"connectThrew"} ELSE {})]
  /\ UNCHANGED <<uiVars, viteWsUrl, sockBudget, phase, isConnected, lastMessage, reconnectTimeoutRef,
                 delays, everOpened, autoAttempts, lastAuto>>

\* The component unmounts: the cleanup of the last effect run.
Unmount(h) ==
  /\ phase[h] = "mounted"
  /\ phase' = [phase EXCEPT ![h] = "unmounted"]
  /\ timers' = cleanupTimers(h)
  /\ cancelDue' = (cancelDue \cup TimersOf(h)) \cap timers'
  /\ sock' = cleanupSock(h)
  /\ ev' = [NoEv EXCEPT !.op = "unmount", !.h = h]
  /\ UNCHANGED <<uiVars, viteWsUrl, sockBudget, userId, isConnected, lastMessage, wsRef,
                 reconnectTimeoutRef, reconnectAttempts, session, userChanges,
                 nextSock, delays, everOpened, autoAttempts, lastAuto>>

\* A React state setter changes nothing once the component is unmounted.
setState(state, h, v) ==
  IF phase[h] = "mounted" THEN [state EXCEPT ![h] = v] ELSE state

\* An onopen that leaves the retry counter as it is.
onopen_keepsAttempts(attempts) == [isConnected |-> TRUE, attempts |-> attempts]

\* The assignments of ws.onopen: setIsConnected(true), reconnectAttempts.current = 0.
onopen(attempts) == [isConnected |-> TRUE, attempts |-> 0]


\* The connection of socket s is established: ws.onopen.
SockOpen(s) ==
  /\ sock[s].st = "CONNECTING"
  /\ LET h == sock[s].owner
         r == onopen(reconnectAttempts[h])
     IN /\ sock' = [sock EXCEPT ![s].st = "OPEN"]
        /\ isConnected' = setState(isConnected, h, r.isConnected)
        /\ reconnectAttempts' = [reconnectAttempts EXCEPT ![h] = r.attempts]
        /\ delays' = [delays EXCEPT ![h] = <<>>]
        /\ everOpened' = [everOpened EXCEPT ![h] = TRUE]
        /\ ev' = [NoEv EXCEPT !.op = "open", !.h = h, !.s = s,
                              !.torn = TornDown(h, sock[s].sess),
                              !.effects = (IF reconnectAttempts[h] # 0
                                           THEN {"retryCounter"} ELSE {})
                                          \cup (IF phase[h] = "mounted"
                                                THEN {"setIsConnected"} ELSE {})]
  /\ UNCHANGED <<uiVars, viteWsUrl, sockBudget, phase, userId, lastMessage, wsRef, reconnectTimeoutRef,
                 session, userChanges, nextSock, timers, autoAttempts, lastAuto,
                 cancelDue>>

\* The comparison one too strict: the last permitted retry is not scheduled.
shouldReconnect_tooStrict(attempts) == attempts < maxReconnectAttempts - 1

\* The comparison off by one: a retry is still scheduled at the maximum.
shouldReconnect_inclusive(attempts) == attempts <= maxReconnectAttempts

\* The decision of ws.onclose: schedule a reconnect or not.
shouldReconnect(attempts) == attempts < maxReconnectAttempts

\* The close event of socket s: the connection failed or was lost, or a
\* close() called earlier has completed.  ws.onclose.
SockClose(s) ==
  /\ sock[s].st \in {"CONNECTING", "OPEN", "CLOSING"}
  /\ LET h == sock[s].owner
         retry == shouldReconnect(reconnectAttempts[h])
         attempts == reconnectAttempts[h] + 1
         delay == reconnectDelay(attempts)
     IN /\ sock' = IF retry THEN [sock EXCEPT ![s].st = "CLOSED", ![s].voluntary = FALSE]
                 ELSE [sock EXCEPT ![s] = ClosedSock]
        /\ isConnected' = setState(isConnected, h, FALSE)
        /\ reconnectAttempts' = IF retry THEN [reconnectAttempts EXCEPT ![h] = attempts]
                                ELSE reconnectAttempts
        /\ timers' = IF retry THEN timers \cup {s} ELSE timers
        /\ reconnectTimeoutRef' = IF retry THEN [reconnectTimeoutRef EXCEPT ![h] = s]
                                  ELSE reconnectTimeoutRef
        /\ delays' = IF retry THEN [delays EXCEPT ![h] = Append(@, delay)] ELSE delays
        /\ ev' = [NoEv EXCEPT !.op = "close", !.h = h, !.s = s,
                              !.torn = TornDown(h, sock[s].sess),
                              !.voluntary = sock[s].voluntary,
                              !.delay = IF retry THEN delay ELSE 0,
                              !.effects = (IF retry THEN {"retryCounter", "timerScheduled"}
                                           ELSE {})
                                          \cup (IF phase[h] = "mounted"
                                                THEN {"setIsConnected"} ELSE {})]
  /\ UNCHANGED <<uiVars, viteWsUrl, sockBudget, phase, userId, lastMessage, wsRef, session, userChanges,
                 nextSock, everOpened, autoAttempts, lastAuto, cancelDue>>

\* The reconnect timer set by the onclose of socket t fires: connect() from
\* the closure of that socket.
TimerFire(t) ==
  /\ t \in timers
  /\ ~WebSocketThrows(sock[t].url) => CanConnect
  /\ LET h == sock[t].owner
         r == connect(h, sock[t].url.userId, sock[t].sess,
                      [sock EXCEPT ![t] = ClosedSock])
     IN /\ timers' = timers \ {t}
        /\ cancelDue' = cancelDue \ {t}
        /\ wsRef' = [wsRef EXCEPT ![h] = r.ws]
        /\ sock' = r.sock
        /\ reconnectAttempts' = [reconnectAttempts EXCEPT ![h] = r.attempts]
        /\ nextSock' = IF r.created # 0 THEN r.created ELSE nextSock
        /\ autoAttempts' = [autoAttempts EXCEPT ![h] = @ + 1]
        /\ lastAuto' = [lastAuto EXCEPT ![h] = r.created]
        /\ ev' = [NoEv EXCEPT !.op = "timer", !.h = h, !.s = t,
                              !.torn = TornDown(h, sock[t].sess),
                              !.escaped = r.escaped,
                              !.effects = {"timerFired"}
                                          \cup (IF r.created # 0 THEN {"newSocket"} ELSE {})
                                          \cup (IF r.threw THEN {"connectThrew"} ELSE {})]
  /\ UNCHANGED <<uiVars, viteWsUrl, sockBudget, phase, userId, isConnected, lastMessage,
                 reconnectTimeoutRef, session, userChanges,
                 delays, everOpened>>

\* A frame arrives on the open socket s: ws.onmessage.
OnMessage(s, frame) ==
  /\ sock[s].st = "OPEN"
  /\ LET h == sock[s].owner
         r == onmessage(frame)
     IN /\ lastMessage' = IF r.setLast THEN setState(lastMessage, h, r.message)
                          ELSE lastMessage
        /\ ev' = [NoEv EXCEPT !.op = "message", !.h = h, !.s = s, !.frame = frame,
                              !.inval = Range(r.inval),
                              !.escaped = r.escaped,
                              !.torn = TornDown(h, sock[s].sess),
                              !.effects = (IF r.inval # <<>> THEN {"invalidate"} ELSE {})
                                          \cup (IF r.setLast /\ phase[h] = "mounted"
                                                THEN {"setLastMessage"} ELSE {})]
  /\ UNCHANGED <<uiVars, viteWsUrl, sockBudget, phase, userId, isConnected, wsRef, reconnectTimeoutRef,
                 reconnectAttempts, session, userChanges, sock, nextSock, timers,
                 delays, everOpened, autoAttempts, lastAuto, cancelDue>>

\* The messages a caller hands to sendMessage: Omit<WebSocketMessage, 'timestamp'>.
OutMessages == [type : {"file_upload"}, data : ProjectIds]

\* WebSocket.send(data) by readyState: it throws an InvalidStateError while
\* CONNECTING, transmits while OPEN and discards the data otherwise.
WebSocketSend(st, data) ==
  [wire |-> IF st = "OPEN" THEN {data} ELSE {}, threw |-> st = "CONNECTING"]

\* sendMessage without the readyState test.
sendMessage_noStateTest(h, message) ==
  IF wsRef[h] # 0
  THEN WebSocketSend(sock[wsRef[h]].st,
                     [type |-> message.type, data |-> message.data, timestamp |-> "now"])
  ELSE [wire |-> {}, threw |-> FALSE]

\* sendMessage(message): JSON.stringify({...message, timestamp}) goes to
\* wsRef.current.send if wsRef.current is set and OPEN.
sendMessage(h, message) ==
  IF wsRef[h] # 0 /\ sock[wsRef[h]].st = "OPEN"
  THEN WebSocketSend(sock[wsRef[h]].st,
                     [type |-> message.type, data |-> message.data, timestamp |-> "now"])
  ELSE [wire |-> {}, threw |-> FALSE]

\* A caller of the hook of component h calls sendMessage.
SendMessage(h, message) ==
  /\ phase[h] # "idle"
  /\ LET r == sendMessage(h, message)
     IN ev' = [NoEv EXCEPT !.op = "send", !.h = h, !.s = wsRef[h], !.wire = r.wire,
                           !.escaped = r.threw,
                           !.effects = IF r.wire # {} THEN {"sent"} ELSE {}]
  /\ UNCHANGED <<hookVars, netVars, uiVars, delays, everOpened, autoAttempts, lastAuto,
                 cancelDue>>

(***************************************************************************)
(* Spec: the life cycle of one instance of the hook (the one App holds),   *)
(* with any userId argument and a change of it.                            *)
(***************************************************************************)
Init == InitHooks /\ sockBudget = MaxSockets

Next ==
  \/ \E u \in UserIds : Mount("App", u)
  \/ \E u \in UserIds : ChangeUserId("App", u)
  \/ Unmount("App")
  \/ \E s \in SockIds : SockOpen(s)
  \/ \E s \in SockIds : SockClose(s)
  \/ \E t \in SockIds : TimerFire(t)

Spec == Init /\ [][Next]_vars

(***************************************************************************)
(* SpecMessages: one run of the effect of the same instance, receiving     *)
(* every kind of frame.                                                    *)
(***************************************************************************)
InitMessages == InitHooks /\ sockBudget = MaxMessageSockets

NextMessages ==
  \/ \E u \in UserIds : Mount("App", u)
  \/ Unmount("App")
  \/ \E s \in SockIds : SockOpen(s)
  \/ \E s \in SockIds : SockClose(s)
  \/ \E t \in SockIds : TimerFire(t)
  \/ \E s \in SockIds, frame \in Frames : OnMessage(s, frame)
  \/ \E message \in OutMessages : SendMessage("App", message)

SpecMessages == InitMessages /\ [][NextMessages]_vars

(***************************************************************************)
(* SpecApp: the application.  App calls useWebSocket('current-user-id');   *)
(* FileManager (the files tab of ProjectDetails) and the FileUploadZone in *)
(* its upload modal call it again through useFileUpload.                   *)
(***************************************************************************)
InitApp == InitHooks /\ sockBudget = MaxAppSockets

MountComponent(h) ==
  /\ h = "FileManager" => phase["App"] = "mounted"
  /\ h = "FileUploadZone" => phase["FileManager"] = "mounted"
  /\ Mount(h, AppUserId)

UnmountComponent(h) ==
  /\ h = "App" => phase["FileManager"] # "mounted"
  /\ h = "FileManager" => phase["FileUploadZone"] # "mounted"
  /\ Unmount(h)

NextApp ==
  \/ \E h \in Hooks : MountComponent(h)
  \/ \E h \in Hooks : UnmountComponent(h)
  \/ \E s \in SockIds : SockOpen(s)
  \/ \E s \in SockIds : SockClose(s)
  \/ \E t \in SockIds : TimerFire(t)

SpecApp == InitApp /\ [][NextApp]_vars

(***************************************************************************)
(* SpecLive: one mounted hook that is never torn down, with the scheduling *)
(* the browser gives: a timer that was set fires after its delay, and a    *)
(* connection attempt ends in an open or a close event.                    *)
(***************************************************************************)
InitLive == InitHooks /\ sockBudget = MaxSockets

\* The browser resolves the connection attempt of socket s.
Resolve(s) == sock[s].st = "CONNECTING" /\ (SockOpen(s) \/ SockClose(s))

NextLive ==
  \/ \E u \in UserIds : Mount("App", u)
  \/ \E s \in SockIds : SockOpen(s)
  \/ \E s \in SockIds : SockClose(s)
  \/ \E t \in SockIds : TimerFire(t)

SpecLive ==
  /\ InitLive
  /\ [][NextLive]_vars
  /\ WF_vars(\E t \in SockIds : TimerFire(t))
  /\ \A s \in SockIds : WF_vars(Resolve(s))

(***************************************************************************)
(* SpecMutations: the mutation hooks and the query cache.  A query is      *)
(* named by its key; invalidateQueries({ queryKey }) marks every cached    *)
(* query whose key starts with queryKey.                                   *)
(***************************************************************************)
ProjectKeys == {"project", "milestones", "proposals", "project-files"}

\* The keys of the useQuery / useInfiniteQuery hooks.
Queries ==
  {<<"projects", "filters">>, <<"my-projects", "userType">>, <<"notifications">>}
    \cup {<<k, p>> : k \in ProjectKeys, p \in ProjectIds}

IsPrefix(k, q) == Len(k) <= Len(q) /\ \A i \in 1..Len(k) : k[i] = q[i]

\* queryClient.invalidateQueries({ queryKey: k }): the queries it marks.
invalidateQueries(k) == {q \in Queries : IsPrefix(k, q)}

ProjectMutations ==
  {"useCreateMilestone", "useUpdateMilestone", "useCompleteMilestone",
   "useFileUpload", "useFileDelete", "useSubmitProposal"}

GlobalMutations ==
  {"useMarkNotificationRead", "useMarkAllNotificationsRead", "useDeleteNotification",
   "useCreateProject"}

MutationHooks == ProjectMutations \cup GlobalMutations

\* The project a mutation is about; "-" for the hooks that have none.
MutationProjects(hook) == IF hook \in ProjectMutations THEN ProjectIds ELSE {Absent}

\* The query keys the onSuccess callbacks invalidate; p is the project of the
\* mutation.  useMilestones.ts: only useCreateMilestone has the project in
\* its variables.
onSuccessMilestones(hook, p) ==
  IF hook = "useCreateMilestone" THEN {<<"milestones", p>>} ELSE {<<"milestones">>}

\* useFiles.ts: useFileUpload and useFileDelete.
onSuccessFiles(p) == {<<"project-files", p>>}

\* useProposals.ts: useSubmitProposal.
onSuccessProposals(p) == {<<"project", p>>}

\* useProjects.ts: useCreateProject.
onSuccessProjects == {<<"projects">>, <<"my-projects">>}

\* useNotifications.ts: the three notification mutations.
onSuccessNotifications == {<<"notifications">>}

onSuccess(hook, p) ==
  CASE hook \in {"useCreateMilestone", "useUpdateMilestone", "useCompleteMilestone"} ->
         onSuccessMilestones(hook, p)
    [] hook \in {"useFileUpload", "useFileDelete"} -> onSuccessFiles(p)
    [] hook = "useSubmitProposal" -> onSuccessProposals(p)
    [] hook = "useCreateProject" -> onSuccessProjects
    [] OTHER -> onSuccessNotifications

\* The queries a settled mutation marks: onSuccess runs only if the
\* mutationFn resolved; no hook has an onError.
Marked(hook, p, ok) ==
  IF ok THEN UNION {invalidateQueries(k) : k \in onSuccess(hook, p)} ELSE {}

\* The request of a mutation hook other than useFileUpload settles.
MutationSettles(hook, p, ok) ==
  /\ hook # "useFileUpload"
  /\ stale' = stale \cup Marked(hook, p, ok)
  /\ mev' = [op |-> "settle", hook |-> hook, project |-> p, ok |-> ok,
             marked |-> Marked(hook, p, ok)]
  /\ UNCHANGED <<hookVars, netVars, viewVars, histVars, boardVars>>

\* The simulated upload of useFileUpload in component h resolves (it cannot
\* reject): onSuccess invalidates the files of the project, then calls the
\* sendMessage of the hook's own useWebSocket.
FileUploadSettles(h, p) ==
  /\ h \in {"FileManager", "FileUploadZone"}
  /\ phase[h] # "idle"
  /\ stale' = stale \cup Marked("useFileUpload", p, TRUE)
  /\ mev' = [op |-> "settle", hook |-> "useFileUpload", project |-> p, ok |-> TRUE,
             marked |-> Marked("useFileUpload", p, TRUE)]
  /\ LET r == sendMessage(h, [type |-> "file_upload", data |-> p])
     IN ev' = [NoEv EXCEPT !.op = "send", !.h = h, !.s = wsRef[h], !.wire = r.wire,
                           !.escaped = r.threw,
                           !.effects = IF r.wire # {} THEN {"sent"} ELSE {}]
  /\ UNCHANGED <<hookVars, netVars, viewVars, boardVars, delays, everOpened, autoAttempts, lastAuto,
                 cancelDue>>

\* A stale query is fetched again.
Refetch(q) ==
  /\ q \in stale
  /\ stale' = stale \ {q}
  /\ mev' = [NoMev EXCEPT !.op = "refetch"]
  /\ UNCHANGED <<hookVars, netVars, viewVars, histVars, boardVars>>

InitMutations ==
  /\ InitHooks
  /\ viteWsUrl = ConfiguredWsBase
  /\ sockBudget = MaxMutationSockets

NextMutations ==
  \/ Mount("FileManager", AppUserId)
  \/ \E s \in SockIds : SockOpen(s)
  \/ \E hook \in MutationHooks, ok \in BOOLEAN :
       \E p \in MutationProjects(hook) : MutationSettles(hook, p, ok)
  \/ \E p \in ProjectIds : FileUploadSettles("FileManager", p)
  \/ \E q \in Queries : Refetch(q)

SpecMutations == InitMutations /\ [][NextMutations]_vars

(***************************************************************************)
(* SpecBoard: the milestone board of one project.  A card is dragged with  *)
(* the item { id, status } of the render in which the drag began, a column *)
(* receives the drop, handleDrop sends the update and, once it resolved,   *)
(* calls onMilestoneUpdate (the refetch of the project's milestones).      *)
(***************************************************************************)
BoardProject == "p1"

InFlight == {r \in Requests : inflight[r] > 0}
CountInFlight ==
  Cardinality({<<r, k>> \in Requests \X (1..MaxRequests) : k <= inflight[r]})
    + Cardinality({<<m, k>> \in Milestones \X (1..MaxRequests) : k <= completing[m]})

\* A Column whose drop handler does not compare the statuses.
drop_always(item, status) == {[id |-> item.id, status |-> status]}

\* Column's drop(item): the onDrop calls it makes, each of which is one
\* updateMilestone.mutateAsync({ milestoneId, updates: { status } }).
drop(item, status) ==
  IF item.status # status THEN {[id |-> item.id, status |-> status]} ELSE {}

\* A handleDrop that calls onMilestoneUpdate in a finally.
handleDrop_refetchAlways(ok) == [refetch |-> TRUE, escaped |-> FALSE]

\* handleDrop after the await: onMilestoneUpdate() if the request resolved,
\* console.error in the catch if it rejected.
handleDrop(ok) == [refetch |-> ok, escaped |-> FALSE]

\* useDrag: a drag of card m begins with the item of the current render.
BeginDrag(m) ==
  /\ drag = NoDrag
  /\ drag' = [id |-> m, status |-> board[m]]
  /\ bev' = [NoBev EXCEPT !.op = "drag", !.item = drag']
  /\ UNCHANGED <<hookVars, netVars, viewVars, histVars, cacheVars, server, board, inflight,
                 completing, refetching>>

\* The dragged card is dropped on the column of a status.
DropOn(status) ==
  /\ drag # NoDrag
  /\ drop(drag, status) # {} => CountInFlight < MaxRequests
  /\ inflight' = [r \in Requests |->
                    inflight[r] + (IF r \in drop(drag, status) THEN 1 ELSE 0)]
  /\ drag' = NoDrag
  /\ bev' = [NoBev EXCEPT !.op = "drop", !.item = drag, !.column = status,
                          !.issued = drop(drag, status)]
  /\ UNCHANGED <<hookVars, netVars, viewVars, histVars, cacheVars, server, board, completing,
                 refetching>>

\* The card is released outside every column.
CancelDrag ==
  /\ drag # NoDrag
  /\ drag' = NoDrag
  /\ bev' = [NoBev EXCEPT !.op = "cancel", !.item = drag]
  /\ UNCHANGED <<hookVars, netVars, viewVars, histVars, cacheVars, server, board, inflight,
                 completing, refetching>>

\* The update request r settles: useUpdateMilestone's onSuccess, then the
\* rest of handleDrop.
RequestSettles(r, ok) ==
  /\ inflight[r] > 0
  /\ inflight' = [inflight EXCEPT ![r] = @ - 1]
  /\ server' = IF ok THEN [server EXCEPT ![r.id] = r.status] ELSE server
  /\ stale' = stale \cup Marked("useUpdateMilestone", BoardProject, ok)
  /\ mev' = [op |-> "settle", hook |-> "useUpdateMilestone", project |-> BoardProject,
             ok |-> ok, marked |-> Marked("useUpdateMilestone", BoardProject, ok)]
  /\ refetching' = (refetching \/ handleDrop(ok).refetch)
  /\ bev' = [NoBev EXCEPT !.op = "settle", !.item = r, !.ok = ok,
                          !.refetch = handleDrop(ok).refetch,
                          !.escaped = handleDrop(ok).escaped]
  /\ UNCHANGED <<hookVars, netVars, viewVars, histVars, board, drag, completing>>

\* The refetch started by onMilestoneUpdate, or by the invalidation of the
\* project's milestones query, delivers the milestones.
BoardRefetched ==
  /\ refetching \/ <<"milestones", BoardProject>> \in stale
  /\ refetching' = FALSE
  /\ board' = server
  /\ stale' = stale \ {<<"milestones", BoardProject>>}
  /\ bev' = [NoBev EXCEPT !.op = "refetched"]
  /\ UNCHANGED <<hookVars, netVars, viewVars, histVars, mev, server, drag, inflight, completing>>

\* The card menu, rendered only for a card whose status is not 'completed':
\* the requests its two buttons send.
menuStartWork(m, status) ==
  IF status # "completed" THEN {[id |-> m, status |-> "in_progress"]} ELSE {}

menuMarkComplete(m, status) == IF status # "completed" THEN {m} ELSE {}

\* handleComplete after the await, same shape as handleDrop.
handleComplete(ok) == [refetch |-> ok, escaped |-> FALSE]

\* "Start Work" in the menu of card m: handleStatusChange(m, 'in_progress'),
\* whose body is that of handleDrop.
StartWork(m) ==
  /\ menuStartWork(m, board[m]) # {}
  /\ CountInFlight < MaxRequests
  /\ inflight' = [r \in Requests |->
                    inflight[r] + (IF r \in menuStartWork(m, board[m]) THEN 1 ELSE 0)]
  /\ bev' = [NoBev EXCEPT !.op = "menu", !.item = [id |-> m, status |-> board[m]],
                          !.issued = menuStartWork(m, board[m])]
  /\ UNCHANGED <<hookVars, netVars, viewVars, histVars, cacheVars, server, board, drag, completing,
                 refetching>>

\* "Mark Complete" in the menu of card m: handleComplete(m) sends
\* completeMilestone.mutateAsync(m).
MarkComplete(m) ==
  /\ menuMarkComplete(m, board[m]) # {}
  /\ CountInFlight < MaxRequests
  /\ completing' = [k \in Milestones |->
                      completing[k] + (IF k \in menuMarkComplete(m, board[m]) THEN 1 ELSE 0)]
  /\ bev' = [NoBev EXCEPT !.op = "complete", !.item = [id |-> m, status |-> board[m]]]
  /\ UNCHANGED <<hookVars, netVars, viewVars, histVars, cacheVars, server, board, drag, inflight,
                 refetching>>

\* The complete request for milestone m settles: useCompleteMilestone's
\* onSuccess, then the rest of handleComplete.
CompleteSettles(m, ok) ==
  /\ completing[m] > 0
  /\ completing' = [completing EXCEPT ![m] = @ - 1]
  /\ server' = IF ok THEN [server EXCEPT ![m] = "completed"] ELSE server
  /\ stale' = stale \cup Marked("useCompleteMilestone", BoardProject, ok)
  /\ mev' = [op |-> "settle", hook |-> "useCompleteMilestone", project |-> BoardProject,
             ok |-> ok, marked |-> Marked("useCompleteMilestone", BoardProject, ok)]
  /\ refetching' = (refetching \/ handleComplete(ok).refetch)
  /\ bev' = [NoBev EXCEPT !.op = "completed", !.item = [id |-> m, status |-> board[m]],
                          !.ok = ok, !.refetch = handleComplete(ok).refetch,
                          !.escaped = handleComplete(ok).escaped]
  /\ UNCHANGED <<hookVars, netVars, viewVars, histVars, board, drag, inflight>>

InitBoard == InitHooks /\ viteWsUrl = ConfiguredWsBase /\ sockBudget = 0

NextBoard ==
  \/ \E m \in Milestones : BeginDrag(m)
  \/ \E status \in Statuses : DropOn(status)
  \/ CancelDrag
  \/ \E r \in Requests, ok \in BOOLEAN : RequestSettles(r, ok)
  \/ \E m \in Milestones : StartWork(m)
  \/ \E m \in Milestones : MarkComplete(m)
  \/ \E m \in Milestones, ok \in BOOLEAN : CompleteSettles(m, ok)
  \/ BoardRefetched

SpecBoard == InitBoard /\ [][NextBoard]_vars

(***************************************************************************)
(* App and Navigation: the view, the user type and the selected project,   *)
(* under navigation clicks, user-type toggles, project selection and back. *)
(***************************************************************************)
navItems ==
  { [id |-> "browse", available |-> {"freelancer", "client"}],
    [id |-> "my-projects", available |-> {"freelancer", "client"}],
    [id |-> "create", available |-> {"client"}],
    [id |-> "milestones", available |-> {"freelancer", "client"}] }

availableNavItems(type) == {item.id : item \in {i \in navItems : type \in i.available}}

\* A handleViewChange that leaves the selection alone.
handleViewChange_keepsSelection(view, selected) ==
  [activeView |-> view, selectedProjectId |-> selected]

handleViewChange(view, selected) ==
  [activeView |-> view,
   selectedProjectId |-> IF view # "project-details" THEN NoProject ELSE selected]

handleProjectSelect(projectId) ==
  [activeView |-> "project-details", selectedProjectId |-> projectId]

handleBackToProjects == [activeView |-> "browse", selectedProjectId |-> NoProject]

\* What App renders below the navigation bar.
renderMainContent(view, selected, type) ==
  CASE view = "browse" ->
         [component |-> "ProjectBrowser", showCreateButton |-> (type = "client")]
    [] view = "my-projects" ->
         [component |-> "MyProjectsDashboard", showCreateButton |-> FALSE]
    [] view = "create" ->
         [component |-> "ProjectBrowser", showCreateButton |-> TRUE]
    [] view = "milestones" ->
         [component |-> "MilestoneDashboard", showCreateButton |-> FALSE]
    [] view = "project-details" ->
         [component |-> IF selected # NoProject THEN "ProjectDetails" ELSE "null",
          showCreateButton |-> FALSE]

MainContent == renderMainContent(activeView, selectedProjectId, userType)

\* A click on an item of the desktop navigation bar.
NavClick(item) ==
  /\ item \in availableNavItems(userType)
  /\ LET r == handleViewChange(item, selectedProjectId)
     IN /\ activeView' = r.activeView
        /\ selectedProjectId' = r.selectedProjectId
  /\ nev' = [op |-> "nav", arg |-> item, from |-> activeView,
           had |-> selectedProjectId]
  /\ UNCHANGED <<hookVars, netVars, histVars, cacheVars, boardVars, pageVars, zoneVars,
                 userType, mobileMenuOpen>>

\* A click on an item of the mobile menu, which also closes the menu.
MobileNavClick(item) ==
  /\ mobileMenuOpen
  /\ item \in availableNavItems(userType)
  /\ LET r == handleViewChange(item, selectedProjectId)
     IN /\ activeView' = r.activeView
        /\ selectedProjectId' = r.selectedProjectId
  /\ mobileMenuOpen' = FALSE
  /\ nev' = [op |-> "mobileNav", arg |-> item, from |-> activeView,
           had |-> selectedProjectId]
  /\ UNCHANGED <<hookVars, netVars, histVars, cacheVars, boardVars, pageVars, zoneVars,
                 userType>>

\* A click on one of the two user-type buttons: onUserTypeChange is setUserType.
SetUserType(type) ==
  /\ userType' = type
  /\ nev' = [op |-> "setUserType", arg |-> type, from |-> activeView,
           had |-> selectedProjectId]
  /\ UNCHANGED <<hookVars, netVars, histVars, cacheVars, boardVars, pageVars, zoneVars,
                 activeView, selectedProjectId, mobileMenuOpen>>

ToggleMobileMenu ==
  /\ mobileMenuOpen' = ~mobileMenuOpen
  /\ nev' = [op |-> "menu", arg |-> "-", from |-> activeView,
           had |-> selectedProjectId]
  /\ UNCHANGED <<hookVars, netVars, histVars, cacheVars, boardVars, pageVars, zoneVars,
                 userType, activeView, selectedProjectId>>

\* A click on a project of the list that is on screen.
SelectProject(projectId) ==
  /\ MainContent.component \in {"ProjectBrowser", "MyProjectsDashboard"}
  /\ LET r == handleProjectSelect(projectId)
     IN /\ activeView' = r.activeView
        /\ selectedProjectId' = r.selectedProjectId
  /\ nev' = [op |-> "select", arg |-> projectId, from |-> activeView,
           had |-> selectedProjectId]
  /\ UNCHANGED <<hookVars, netVars, histVars, cacheVars, boardVars, pageVars, zoneVars,
                 userType, mobileMenuOpen>>

\* The back button of ProjectDetails.
Back ==
  /\ MainContent.component = "ProjectDetails"
  /\ activeView' = handleBackToProjects.activeView
  /\ selectedProjectId' = handleBackToProjects.selectedProjectId
  /\ nev' = [op |-> "back", arg |-> "-", from |-> activeView,
           had |-> selectedProjectId]
  /\ UNCHANGED <<hookVars, netVars, histVars, cacheVars, boardVars, pageVars, zoneVars,
                 userType, mobileMenuOpen>>

InitNav == InitHooks /\ viteWsUrl = ConfiguredWsBase /\ sockBudget = 0

NextNav ==
  \/ \E item \in ViewTypes : NavClick(item)
  \/ \E item \in ViewTypes : MobileNavClick(item)
  \/ \E type \in UserTypes : SetUserType(type)
  \/ ToggleMobileMenu
  \/ \E projectId \in ListedProjects : SelectProject(projectId)
  \/ Back

SpecNav == InitNav /\ [][NextNav]_vars

(***************************************************************************)
(* ProjectBrowser: the infinite query of useProjectFilters, the scroll     *)
(* listener and the Load More button.  The listener and the button belong  *)
(* to the latest render, so they test the hasNextPage and                  *)
(* isFetchingNextPage of that render; the query itself moves on when a     *)
(* fetch is started or settles, and the component renders again after it.  *)
(* Every page that is fetched carries at least one project.                *)
(***************************************************************************)

\* queryFn: the page that a response to pageParam makes.
queryFn(pageParam, has_more) ==
  [pageParam |-> pageParam, nextPage |-> IF has_more THEN pageParam + 1 ELSE NoPage]

getNextPageParam(lastPage) == lastPage.nextPage

LastPageParam == IF pages = <<>> THEN NoPage ELSE pages[Len(pages)].pageParam
NextPageParam == IF pages = <<>> THEN NoPage ELSE getNextPageParam(pages[Len(pages)])

\* The query result that a render starting now would read.
QueryResult ==
  [hasNextPage |-> NextPageParam # NoPage,
   isFetchingNextPage |-> (fetching # NoPage /\ pages # <<>>),
   projects |-> Len(pages)]

\* fetchNextPage(): no request when getNextPageParam gives undefined;
\* otherwise a request for that page, which replaces a fetch in flight.
fetchNextPage == IF NextPageParam = NoPage THEN fetching ELSE NextPageParam

\* Mounting the component starts the fetch of the first page.
InitialFetch ==
  /\ pages = <<>>
  /\ fetching = NoPage
  /\ pev.op = "init"
  /\ fetching' = 1
  /\ pev' = [NoPev EXCEPT !.op = "mount"]
  /\ UNCHANGED <<hookVars, netVars, histVars, cacheVars, boardVars, navVars, zoneVars,
                 pages, rendered>>

\* The component renders again and its effect subscribes a new listener.
Render ==
  /\ rendered # QueryResult
  /\ rendered' = QueryResult
  /\ pev' = [NoPev EXCEPT !.op = "render"]
  /\ UNCHANGED <<hookVars, netVars, histVars, cacheVars, boardVars, navVars, zoneVars,
                 pages, fetching>>

\* handleScroll: does the listener call fetchNextPage()?
handleScroll(near) == near /\ rendered.hasNextPage /\ ~rendered.isFetchingNextPage

\* Is the Load More button on screen?
LoadMoreButton ==
  rendered.hasNextPage /\ ~rendered.isFetchingNextPage /\ rendered.projects > 0

\* What the last step records of a step that may call fetchNextPage().
Called(op, called) ==
  [op |-> op, called |-> called,
   requested |-> IF called /\ NextPageParam # NoPage THEN NextPageParam ELSE NoPage,
   inFlight |-> fetching, last |-> LastPageParam, more |-> NextPageParam # NoPage]

\* A scroll event; near says whether the window is within 1000px of the end.
Scroll(near) ==
  /\ fetching' = IF handleScroll(near) THEN fetchNextPage ELSE fetching
  /\ pev' = Called("scroll", handleScroll(near))
  /\ UNCHANGED <<hookVars, netVars, histVars, cacheVars, boardVars, navVars, zoneVars,
                 pages, rendered>>

\* A click on the Load More button.
LoadMore ==
  /\ LoadMoreButton
  /\ fetching' = fetchNextPage
  /\ pev' = Called("loadMore", TRUE)
  /\ UNCHANGED <<hookVars, netVars, histVars, cacheVars, boardVars, navVars, zoneVars,
                 pages, rendered>>

\* The fetch in flight resolves; has_more is the server's answer.
FetchSucceeds(has_more) ==
  /\ fetching # NoPage
  /\ has_more => fetching < MaxPages
  /\ pages' = Append(pages, queryFn(fetching, has_more))
  /\ fetching' = NoPage
  /\ pev' = [NoPev EXCEPT !.op = "fetched"]
  /\ UNCHANGED <<hookVars, netVars, histVars, cacheVars, boardVars, navVars, zoneVars,
                 rendered>>

\* The fetch in flight rejects.
FetchFails ==
  /\ fetching # NoPage
  /\ fetching' = NoPage
  /\ pev' = [NoPev EXCEPT !.op = "failed"]
  /\ UNCHANGED <<hookVars, netVars, histVars, cacheVars, boardVars, navVars, zoneVars,
                 pages, rendered>>

InitPages == InitHooks /\ viteWsUrl = ConfiguredWsBase /\ sockBudget = 0

NextPages ==
  \/ InitialFetch
  \/ Render
  \/ \E near \in BOOLEAN : Scroll(near)
  \/ LoadMore
  \/ \E has_more \in BOOLEAN : FetchSucceeds(has_more)
  \/ FetchFails

SpecPages == InitPages /\ [][NextPages]_vars

(***************************************************************************)
(* FileUploadZone: handleFiles, its progress ticker (setInterval), the     *)
(* upload (fileUpload.mutateAsync) and the timer that clears the list.     *)
(***************************************************************************)
ProgressCap == 90
ProgressDone == 100

\* Values of Math.random() * 30 that a tick may draw.
Steps == {15, 29}

\* The entries that handleFiles makes for n valid files.
uploadingFilesState(n) == [i \in 1..n |-> [progress |-> 0, status |-> "uploading"]]

\* The updater of the ticker: every entry moves, whatever its status.
progressInterval(prev, steps) ==
  [i \in 1..Len(prev) |->
     [prev[i] EXCEPT !.progress = Min(prev[i].progress + steps[i], ProgressCap)]]

\* The updater after the upload resolved.
markCompleted(prev) ==
  [i \in 1..Len(prev) |-> [progress |-> ProgressDone, status |-> "completed"]]

\* The updater of the catch block.
markError(prev) == [i \in 1..Len(prev) |-> [prev[i] EXCEPT !.status = "error"]]

\* removeUploadingFile(index), with positions counted from 1.
removeUploadingFile(prev, index) ==
  [i \in 1..(Len(prev) - 1) |-> IF i < index THEN prev[i] ELSE prev[i + 1]]

\* The zone takes no pointer events while fileUpload.isPending.
isPending == \E a \in Attempts : attempt[a] = "uploading"

\* handleFiles with n valid files, up to its await: the list is replaced,
\* the ticker is started and the upload is sent.
HandleFiles(a, n) ==
  /\ ~isPending
  /\ attempt[a] = "none"
  /\ \A b \in Attempts : b < a => attempt[b] # "none"
  /\ uploadingFiles' = uploadingFilesState(n)
  /\ intervals' = intervals \cup {a}
  /\ attempt' = [attempt EXCEPT ![a] = "uploading"]
  /\ zev' = [op |-> "start", attempt |-> a, ended |-> FALSE, changed |-> TRUE]
  /\ UNCHANGED <<hookVars, netVars, histVars, cacheVars, boardVars, navVars, pageVars,
                 clearTimers>>

\* The setInterval callback of call a fires; steps are the random numbers.
Tick(a) ==
  /\ a \in intervals
  /\ \E steps \in [1..Len(uploadingFiles) -> Steps] :
       /\ uploadingFiles' = progressInterval(uploadingFiles, steps)
       /\ zev' = [op |-> "tick", attempt |-> a, ended |-> attempt[a] # "uploading",
                  changed |-> progressInterval(uploadingFiles, steps) # uploadingFiles]
  /\ UNCHANGED <<hookVars, netVars, histVars, cacheVars, boardVars, navVars, pageVars,
                 attempt, intervals, clearTimers>>

\* mutateAsync of call a resolves: the rest of the try block.
UploadResolves(a) ==
  /\ attempt[a] = "uploading"
  /\ intervals' = intervals \ {a}
  /\ uploadingFiles' = markCompleted(uploadingFiles)
  /\ clearTimers' = clearTimers \cup {a}
  /\ attempt' = [attempt EXCEPT ![a] = "succeeded"]
  /\ zev' = [op |-> "resolved", attempt |-> a, ended |-> TRUE, changed |-> TRUE]
  /\ UNCHANGED <<hookVars, netVars, histVars, cacheVars, boardVars, navVars, pageVars>>

\* mutateAsync of call a rejects: the catch block.
UploadRejects(a) ==
  /\ attempt[a] = "uploading"
  /\ uploadingFiles' = markError(uploadingFiles)
  /\ attempt' = [attempt EXCEPT ![a] = "failed"]
  /\ zev' = [op |-> "rejected", attempt |-> a, ended |-> TRUE, changed |-> TRUE]
  /\ UNCHANGED <<hookVars, netVars, histVars, cacheVars, boardVars, navVars, pageVars,
                 intervals, clearTimers>>

\* The 2 s timer of call a fires: the list is emptied.
ClearTimerFires(a) ==
  /\ a \in clearTimers
  /\ uploadingFiles' = <<>>
  /\ clearTimers' = clearTimers \ {a}
  /\ zev' = [op |-> "cleared", attempt |-> a, ended |-> TRUE, changed |-> TRUE]
  /\ UNCHANGED <<hookVars, netVars, histVars, cacheVars, boardVars, navVars, pageVars,
                 attempt, intervals>>

\* A click on the remove button of an entry.
RemoveUploadingFile(index) ==
  /\ index \in 1..Len(uploadingFiles)
  /\ uploadingFiles' = removeUploadingFile(uploadingFiles, index)
  /\ zev' = [op |-> "remove", attempt |-> 0, ended |-> FALSE, changed |-> TRUE]
  /\ UNCHANGED <<hookVars, netVars, histVars, cacheVars, boardVars, navVars, pageVars,
                 attempt, intervals, clearTimers>>

InitZone == InitHooks /\ viteWsUrl = ConfiguredWsBase /\ sockBudget = 0

NextZone ==
  \/ \E a \in Attempts, n \in 1..MaxFiles : HandleFiles(a, n)
  \/ \E a \in Attempts : Tick(a)
  \/ \E a \in Attempts : UploadResolves(a)
  \/ \E a \in Attempts : UploadRejects(a)
  \/ \E a \in Attempts : ClearTimerFires(a)
  \/ \E index \in 1..MaxFiles : RemoveUploadingFile(index)

SpecZone == InitZone /\ [][NextZone]_vars

(***************************************************************************)
(* Properties.                                                             *)
(***************************************************************************)

\* C1: once the cleanup of an effect run has run, the closures of that run
\* open no socket, fire no reconnect timer, invalidate no cache key and
\* change neither lastMessage nor the retry counter.
C1_NoActivityAfterTeardown ==
  ev.torn =>
    ev.effects \cap {"newSocket", "timerFired", "invalidate", "setLastMessage",
                     "retryCounter"} = {}

\* C2: while no connection attempt has ever opened, the hook makes at most
\* 5 automatic reconnect attempts, and once the fifth has closed no
\* reconnect timer is pending.
C2_AtMostFiveAutoAttempts ==
  \A h \in Hooks :
    ~everOpened[h] =>
      /\ autoAttempts[h] <= 5
      /\ (autoAttempts[h] = 5 /\ lastAuto[h] # 0 /\ sock[lastAuto[h]].st = "CLOSED")
           => TimersOf(h) = {}

C2_Witness ==
  /\ ~everOpened["App"]
  /\ autoAttempts["App"] = 5
  /\ lastAuto["App"] # 0
  /\ sock[lastAuto["App"]].st = "CLOSED"

BackoffTable == <<2000, 4000, 8000, 16000, 30000>>

C4_CleanupCancelsPendingTimers == cancelDue = {}

\* C5: the close event of a socket closed by the cleanup neither increments
\* the retry counter nor schedules a reconnect timer.
C5_VoluntaryCloseNoRetry ==
  (ev.op = "close" /\ ev.voluntary) =>
    ev.effects \cap {"retryCounter", "timerScheduled"} = {}

\* C6: an instance of the hook has at most one socket that is CONNECTING or
\* OPEN at any time.
C6_OneLiveSocket == \A h \in Hooks : Cardinality(LiveOf(h)) <= 1

\* C7: across the application at most one connection is open at a time for
\* one identity.
C7_OneConnectionPerIdentity ==
  \A s1, s2 \in SockIds :
    (sock[s1].st = "OPEN" /\ sock[s2].st = "OPEN"
       /\ sock[s1].url.userId = sock[s2].url.userId) => s1 = s2

\* The table of section 4.3: the cache keys a recognized kind makes stale.
RouteTable(type, p) ==
  CASE type = "project_update" -> {<<"projects">>, <<"project", p>>}
    [] type = "milestone_update" -> {<<"milestones", p>>}
    [] type = "proposal_update" -> {<<"proposals", p>>}
    [] type = "file_upload" -> {<<"project-files", p>>}
    [] type = "notification" -> {<<"notifications">>}

Recognized(frame) == frame.text = "object" /\ frame.type \in MessageTypes

C9_UnknownKindIgnored ==
  [][(ev'.op = "message" /\ ev'.frame.text = "object"
        /\ ev'.frame.type \notin MessageTypes) =>
       /\ ev'.inval = {}
       /\ ~ev'.escaped
       /\ sock'[ev'.s].st = "OPEN"
       /\ UNCHANGED <<sock, isConnected, reconnectAttempts, timers, reconnectTimeoutRef>>]_vars

C9_Witness ==
  /\ ev.op = "message"
  /\ ev.frame.text = "object"
  /\ ev.frame.type = "chat_message"
  /\ sock[ev.s].st = "OPEN"

CurrentOpen(h) == wsRef[h] # 0 /\ sock[wsRef[h]].st = "OPEN"

\* C11: sendMessage puts the envelope, with a timestamp added, on the wire
\* exactly when the hook's current socket is open; otherwise it sends
\* nothing and raises nothing; in both cases it changes no state of the hook,
\* its sockets or its timers.
C11_SendOnlyWhenOpen ==
  [][ev'.op = "send" =>
       /\ ~ev'.escaped
       /\ CurrentOpen(ev'.h) =>
            /\ Cardinality(ev'.wire) = 1
            /\ \A e \in ev'.wire : e.timestamp = "now" /\ e.type = "file_upload"
       /\ ~CurrentOpen(ev'.h) => ev'.wire = {}
       /\ UNCHANGED <<hookVars, netVars>>]_vars

C11_Witness ==
  /\ ev.op = "send"
  /\ wsRef[ev.h] # 0
  /\ sock[wsRef[ev.h]].st = "CONNECTING"
  /\ ev.wire = {}
  /\ ~ev.escaped

C13_CounterRange ==
  /\ [](\A h \in Hooks : reconnectAttempts[h] \in 0..maxReconnectAttempts)
  /\ [][\A h \in Hooks :
          reconnectAttempts'[h] # reconnectAttempts[h] =>
            \/ ev'.op = "open" /\ ev'.h = h /\ reconnectAttempts'[h] = 0
            \/ /\ ev'.op = "close" /\ ev'.h = h
               /\ reconnectAttempts[h] < maxReconnectAttempts
               /\ reconnectAttempts'[h] = reconnectAttempts[h] + 1]_vars

C13_Witness ==
  /\ ev.op = "close"
  /\ reconnectAttempts[ev.h] = maxReconnectAttempts
  /\ "retryCounter" \notin ev.effects

\* An automatic connection attempt of hook h is in progress.
AutoAttemptInProgress(h) == lastAuto[h] # 0 /\ sock[lastAuto[h]].st = "CONNECTING"

\* C14 as stated: in every state where the retry counter equals 5, no
\* reconnect timer is pending and no automatic attempt is in progress.
C14_NothingPendingAtFive ==
  \A h \in Hooks :
    reconnectAttempts[h] = maxReconnectAttempts =>
      TimersOf(h) = {} /\ ~AutoAttemptInProgress(h)

\* C14, amended: a close handler that finds the retry counter at 5 gives up:
\* it schedules no timer, starts no attempt and leaves the counter at 5.
C14_CloseAtFiveGivesUp ==
  [][(ev'.op = "close" /\ reconnectAttempts[ev'.h] = maxReconnectAttempts) =>
       /\ timers' = timers
       /\ nextSock' = nextSock
       /\ wsRef' = wsRef
       /\ reconnectAttempts' = reconnectAttempts
       /\ ev'.delay = 0]_vars

C14_Witness ==
  /\ ev.op = "close"
  /\ ~everOpened[ev.h]
  /\ reconnectAttempts[ev.h] = maxReconnectAttempts
  /\ ev.delay = 0
  /\ TimersOf(ev.h) = {}
  /\ LiveOf(ev.h) = {}

\* C15: while VITE_WS_URL is not configured no socket is ever created and no
\* reconnect timer is ever set.
C15_DisabledWithoutUrl ==
  viteWsUrl = "" =>
    /\ nextSock = 0
    /\ \A s \in SockIds : sock[s] = NoSock
    /\ timers = {}

\* The retry counter the last close handler found.
CounterAtClose ==
  reconnectAttempts[ev.h] - (IF "retryCounter" \in ev.effects THEN 1 ELSE 0)

\* C16: with fair timers and socket events and no teardown, a close that
\* found the retry counter below 5 leads to a new connection attempt, and a
\* connection attempt leads to isConnected being true unless it is closed.
C16_CloseLeadsToReconnect ==
  /\ \A n \in SockIds :
       (/\ ev.op = "close"
        /\ CounterAtClose < maxReconnectAttempts
        /\ nextSock = n
        /\ n < sockBudget)
         ~> (nextSock > n /\ sock[nextSock].owner = "App")
  /\ \A s \in SockIds :
       (sock[s].st = "CONNECTING" /\ autoAttempts["App"] > 0)
         ~> (isConnected["App"] \/ sock[s].st = "CLOSED")

C16_Witness ==
  /\ ev.op = "open"
  /\ autoAttempts["App"] > 0
  /\ lastAuto["App"] = ev.s
  /\ isConnected["App"]

\* What a component reads from the hook: the boolean isConnected; App shows
\* "Reconnecting to live updates..." while it is false.
ReconnectingBanner(h) == phase[h] = "mounted" /\ ~isConnected[h]

\* A connection attempt of hook h is in progress or scheduled.
AttemptPending(h) ==
  \/ \E s \in LiveOf(h) : sock[s].st = "CONNECTING"
  \/ TimersOf(h) # {}

\* C17: the state a component observes tells an attempt in progress apart
\* from being disconnected with nothing pending: "reconnecting" is shown
\* only while an attempt is in progress or scheduled.
C17_ReconnectingOnlyWhilePending ==
  \A h \in Hooks : ReconnectingBanner(h) => AttemptPending(h)

\* C18: when new WebSocket throws inside connect(), the exception does not
\* leave connect(), isConnected stays false, the retry counter and the timer
\* reference are unchanged and no timer is added.
C18_ConnectFailureContained ==
  []["connectThrew" \in ev'.effects =>
       /\ ~ev'.escaped
       /\ ~isConnected[ev'.h] /\ ~isConnected'[ev'.h]
       /\ reconnectAttempts' = reconnectAttempts
       /\ reconnectTimeoutRef' = reconnectTimeoutRef
       /\ timers' \subseteq timers
       /\ wsRef' = wsRef
       /\ nextSock' = nextSock]_vars

C18_Witness ==
  /\ ev.op = "userId"
  /\ "connectThrew" \in ev.effects
  /\ ~ev.escaped
  /\ phase[ev.h] = "mounted"
  /\ ~isConnected[ev.h]

\* The cached collection a mutation modifies.
Modified(hook, p) ==
  CASE hook \in {"useCreateMilestone", "useUpdateMilestone", "useCompleteMilestone"} ->
         {<<"milestones", p>>}
    [] hook \in {"useFileUpload", "useFileDelete"} -> {<<"project-files", p>>}
    [] hook = "useSubmitProposal" -> {<<"proposals", p>>}
    [] hook = "useCreateProject" -> {<<"projects", "filters">>, <<"my-projects", "userType">>}
    [] OTHER -> {<<"notifications">>}

\* C19: a mutation that succeeded has marked the collection it modifies
\* stale, and a mutation that failed has marked nothing.
C19_MutationInvalidates ==
  mev.op = "settle" =>
    /\ mev.ok => Modified(mev.hook, mev.project) \subseteq mev.marked
    /\ mev.ok => Modified(mev.hook, mev.project) \subseteq stale
    /\ ~mev.ok => mev.marked = {}

\* C20: a drop on a column sends exactly one update request, for the
\* dragged card and the column's status, if the status the card had when
\* the drag began differs from the column's, and none if they are equal;
\* onMilestoneUpdate is called exactly for the requests that succeeded, and
\* a failed request raises nothing.
C20_DropUpdatesOnce ==
  [][/\ bev'.op = "drop" =>
          /\ bev'.item = drag
          /\ IF drag.status # bev'.column
             THEN /\ bev'.issued = {[id |-> drag.id, status |-> bev'.column]}
                  /\ \A r \in Requests :
                       inflight'[r] = inflight[r] + (IF r \in bev'.issued THEN 1 ELSE 0)
             ELSE bev'.issued = {} /\ inflight' = inflight
     /\ bev'.op = "settle" =>
          /\ bev'.refetch <=> bev'.ok
          /\ ~bev'.ok => refetching' = refetching
          /\ ~bev'.escaped
     /\ bev'.op \in {"drag", "cancel", "settle", "refetched"} =>
          \A r \in Requests : inflight'[r] <= inflight[r]
     /\ (refetching' /\ ~refetching) => (bev'.op \in {"settle", "completed"} /\ bev'.ok)]_vars

C20_Witness ==
  /\ bev.op = "drop"
  /\ bev.item.status = bev.column
  /\ board[bev.item.id] # bev.column
  /\ bev.issued = {}

\* C22: a hook has at most one reconnect timer pending, and
\* reconnectTimeoutRef refers to the pending one.
C22_OneTimerInRef ==
  \A h \in Hooks :
    /\ Cardinality(TimersOf(h)) <= 1
    /\ \A t \in TimersOf(h) : reconnectTimeoutRef[h] = t

\* C23: whenever a mounted hook reports isConnected, the socket in
\* wsRef.current is open.
C23_ConnectedMeansCurrentOpen ==
  \A h \in Hooks : (phase[h] = "mounted" /\ isConnected[h]) => CurrentOpen(h)

\* A frame whose processing throws: text that is not JSON, the JSON value
\* null, or a recognized kind that needs data.projectId and has no data.
FailsPartway(frame) ==
  \/ frame.text \in {"garbage", "null"}
  \/ Recognized(frame) /\ frame.type # "notification" /\ frame.data = NoData

\* C24: a frame whose processing fails partway neither sets lastMessage nor
\* invalidates a key, and lastMessage is set to a message of a recognized
\* kind only together with all the keys of that kind.
C24_AllOrNothing ==
  ev.op = "message" =>
    /\ FailsPartway(ev.frame) => ("setLastMessage" \notin ev.effects /\ ev.inval = {})
    /\ ("setLastMessage" \in ev.effects /\ Recognized(ev.frame)
          /\ ev.frame.data \in ProjectIds) =>
         ev.inval = RouteTable(ev.frame.type, ev.frame.data)

\* C26: a socket is always created with the userId the hook has at that
\* moment in its URL.
C26_SocketCarriesCurrentUser ==
  "newSocket" \in ev.effects =>
    sock[nextSock].url.userId = userId[sock[nextSock].owner]

\* C25: running the effect (mount or userId change) or a reconnect timer
\* leaves the retry counter as it is, so a socket started with the counter
\* at 5 that closes before it opens gets no reconnect timer.
C25_StartKeepsCounter ==
  [][/\ ev'.op \in {"mount", "userId", "timer"} => reconnectAttempts' = reconnectAttempts
     /\ (ev'.op = "close" /\ reconnectAttempts[ev'.h] = maxReconnectAttempts) =>
          /\ timers' = timers
          /\ "timerScheduled" \notin ev'.effects]_vars

\* The sixth socket, started by the effect after a userId change that came
\* when the five closes before it had used up the budget, has closed.
C25_Witness ==
  /\ ev.op = "close"
  /\ ev.s = maxReconnectAttempts + 1
  /\ userChanges = 1
  /\ wsRef[ev.h] = ev.s
  /\ lastAuto[ev.h] # ev.s
  /\ autoAttempts[ev.h] = maxReconnectAttempts - 1
  /\ ~ev.torn
  /\ ~everOpened[ev.h]
  /\ reconnectAttempts[ev.h] = maxReconnectAttempts
  /\ TimersOf(ev.h) = {}

\* C30: no step of the board sends an update or a complete request for a
\* card that was 'completed' when the user acted on it (opened its menu or
\* began to drag it).
C30_CompletedNeverRequested ==
  (bev.op \in {"drop", "menu", "complete"} /\ bev.item.status = "completed") =>
    (bev.issued = {} /\ bev.op # "complete")

\* C27: in App, whatever the navigation clicks, user-type toggles, project
\* selections and back clicks, activeView is 'project-details' exactly when
\* selectedProjectId is not null, so the details view is never rendered
\* empty and no selection stays behind another view.
C27_DetailsIffSelected ==
  /\ (activeView = "project-details") <=> (selectedProjectId # NoProject)
  /\ MainContent.component # "null"

\* C27's case: a project was selected and the user type toggled while the
\* details view is on screen.
C27_Witness ==
  /\ activeView = "project-details"
  /\ selectedProjectId = "p2"
  /\ userType = "client"
  /\ nev.op = "setUserType"
  /\ nev.from = "project-details"

\* C28: posting a project is offered to clients only: while userType is
\* 'freelancer', activeView is not 'create' and ProjectBrowser is not
\* rendered with showCreateButton = true.
C28_CreateOnlyForClients ==
  userType = "freelancer" =>
    /\ activeView # "create"
    /\ ~MainContent.showCreateButton

\* C21: the project browser never requests the next page while a next-page
\* fetch is in flight, nor after the last fetched page reported
\* has_more = false; the page it requests is the last fetched page + 1; so
\* the pages are loaded in order without gaps or duplicates.
C21_NextPageRequests ==
  /\ pev.requested # NoPage =>
       /\ pev.inFlight = NoPage
       /\ pev.more
       /\ pev.requested = pev.last + 1
  /\ \A i \in 1..Len(pages) : pages[i].pageParam = i

\* C29: in FileUploadZone, across any sequence of upload attempts, every
\* entry with status 'completed' has progress 100, every entry with status
\* 'uploading' has progress at most 90, and the progress ticker of an
\* attempt that has ended in success or failure changes no entry.
C29_ProgressMatchesStatus ==
  /\ \A i \in 1..Len(uploadingFiles) :
       /\ uploadingFiles[i].status = "completed" =>
            uploadingFiles[i].progress = ProgressDone
       /\ uploadingFiles[i].status = "uploading" =>
            uploadingFiles[i].progress <= ProgressCap
  /\ (zev.op = "tick" /\ zev.ended) => ~zev.changed

====
